---------------------------- MODULE Spec2Model ----------------------------
(***************************************************************************)
(* Chronoamperometry analysis of MADAP                                     *)
(* (src/madap/echem/voltammetry/voltammetry_CA.py, class Voltammetry_CA).  *)
(*                                                                         *)
(* Numbers.  The program computes in floating point.  The model computes   *)
(* in exact rational arithmetic: a float is a record [n, d] standing for   *)
(* n/d in lowest terms with d > 0.  d = 0 stands for a non-finite float    *)
(* (n = 0: NaN, n = 1: +inf, n = -1: -inf), which is what numpy produces   *)
(* where the model divides by zero or takes the logarithm of a non-positive*)
(* number.  Rounding error of the floating point operations is not         *)
(* modelled.                                                               *)
(***************************************************************************)
EXTENDS Integers, Sequences, FiniteSets

VARIABLES
    time,                   \* self.time / self.np_time
    current,                \* self.current / self.np_current
    charge,                 \* the charge argument of __init__ (None or a list)
    args,                   \* the args namespace given to __init__
    linregress_raises,      \* the installed scipy rejects identical x values
    pc,                     \* position in the object's life
    error,                  \* name of the exception that ended the last call
    cumulative_charge,      \* self.cumulative_charge
    window_size,            \* self.window_size
    area_of_active_material,            \* self.area_of_active_material
    concentration_of_active_material,   \* self.concentration_of_active_material
    diffusion_coefficient,  \* self.diffusion_coefficient
    reaction_order,         \* self.reaction_order
    reaction_rate_constant, \* self.reaction_rate_constant
    first_order_fit,        \* local of _analyze_reaction_kinetics
    second_order_fit,       \* local of _analyze_reaction_kinetics
    x_data,                 \* arguments of a direct call of
    y_data,                 \*   _analyze_best_linear_fit
    best_fit                \* what that call returned

vars == <<time, current, charge, args, linregress_raises, pc, error,
          cumulative_charge, window_size, area_of_active_material,
          concentration_of_active_material, diffusion_coefficient,
          reaction_order, reaction_rate_constant, first_order_fit,
          second_order_fit, x_data, y_data, best_fit>>

-----------------------------------------------------------------------------
(* Bounds of the model. *)

\* Longest sequence handed to the best-linear-fit search.
MaxLen == 4

\* The x and y values handed to the search on its own range over 0..MaxVal.
MaxVal == 1

-----------------------------------------------------------------------------
(* Optional values: None is the empty sequence, a value v is <<v>>. *)

None == <<>>

Some(v) == <<v>>

IsNone(o) == o = <<>>

Get(o) == o[1]

-----------------------------------------------------------------------------
(* Floats as exact rationals. *)

Abs(i) == IF i < 0 THEN -i ELSE i

Sign(i) == IF i < 0 THEN -1 ELSE IF i > 0 THEN 1 ELSE 0

Max(a, b) == IF a > b THEN a ELSE b

Min(a, b) == IF a < b THEN a ELSE b

RECURSIVE Gcd(_, _)
Gcd(a, b) == IF b = 0 THEN a ELSE Gcd(b, a % b)

\* The float n/d; a zero denominator gives nan (0/0) or +-inf, as numpy does.
Q(n, d) ==
    IF d = 0 THEN [n |-> Sign(n), d |-> 0]
    ELSE LET g == Gcd(Abs(n), Abs(d))
             s == Sign(d)
         IN  [n |-> (s * n) \div g, d |-> (s * d) \div g]

F(i) == [n |-> i, d |-> 1]

NaN == [n |-> 0, d |-> 0]

IsFinite(a) == a.d # 0

\* Arithmetic; a non-finite operand gives NaN (inf - inf, inf * 0, nan + x: the
\* only uses are inside linregress, where every such value ends as NaN).
FAdd(a, b) == IF IsFinite(a) /\ IsFinite(b) THEN Q(a.n * b.d + b.n * a.d, a.d * b.d) ELSE NaN

FSub(a, b) == IF IsFinite(a) /\ IsFinite(b) THEN Q(a.n * b.d - b.n * a.d, a.d * b.d) ELSE NaN

FMul(a, b) == IF IsFinite(a) /\ IsFinite(b) THEN Q(a.n * b.n, a.d * b.d) ELSE NaN

FDiv(a, b) == IF IsFinite(a) /\ IsFinite(b) THEN Q(a.n * b.d, a.d * b.n) ELSE NaN

FNeg(a) == [n |-> -a.n, d |-> a.d]

\* a > b on floats: False as soon as one side is NaN.
FGt(a, b) == IsFinite(a) /\ IsFinite(b) /\ a.n * b.d > b.n * a.d

RECURSIVE FSum(_)
FSum(s) == IF s = <<>> THEN F(0) ELSE FAdd(Head(s), FSum(Tail(s)))

FMean(s) == FDiv(FSum(s), F(Len(s)))

\* A list of Python ints as a float array.
FArray(s) == [i \in 1..Len(s) |-> F(s[i])]

-----------------------------------------------------------------------------
(* Python slicing s[a:b] of a sequence (indices from 0, negative indices    *)
(* count from the end, out-of-range indices are clamped).                   *)

Clamp(i, L) == IF i < 0 THEN Max(i + L, 0) ELSE Min(i, L)

PySlice(s, a, b) ==
    LET lo == Clamp(a, Len(s))
        hi == Clamp(b, Len(s))
    IN  [k \in 1..Max(hi - lo, 0) |-> s[lo + k]]

-----------------------------------------------------------------------------
(* scipy.stats.linregress(x, y), the library call of line 116.  It returns  *)
(* slope, intercept and r_value; the caller squares r_value, and the model  *)
(* returns that square, r_squared = ssxym^2 / (ssxm * ssym), since r_value  *)
(* itself need not be rational.                                             *)
(*   - empty input: ValueError;                                             *)
(*   - all x identical (more than one point): ValueError in scipy >= 1.7;   *)
(*     before, r = 0 and slope = 0/0 = nan;                                 *)
(*   - ssxm = 0 or ssym = 0: r = 0;                                         *)
(*   - a non-finite sample: every covariance is nan, so r, slope and        *)
(*     intercept are nan.                                                   *)

AllSame(s) == \A i \in 1..Len(s) : s[i] = s[1]

AllFinite(s) == \A i \in 1..Len(s) : IsFinite(s[i])

\* the intercept with the wrong sign of the slope term
InterceptPlus(ymean, slope, xmean) == FAdd(ymean, FMul(slope, xmean))

\* intercept = ymean - slope * xmean
Intercept(ymean, slope, xmean) == FSub(ymean, FMul(slope, xmean))

Linregress(xs, ys, raises) ==
    IF Len(xs) = 0 \/ Len(ys) = 0
    THEN [raised |-> TRUE, slope |-> NaN, intercept |-> NaN, r_squared |-> NaN]
    ELSE IF raises /\ Len(xs) > 1 /\ AllSame(xs)
    THEN [raised |-> TRUE, slope |-> NaN, intercept |-> NaN, r_squared |-> NaN]
    ELSE IF ~(AllFinite(xs) /\ AllFinite(ys))
    THEN [raised |-> FALSE, slope |-> NaN, intercept |-> NaN, r_squared |-> NaN]
    ELSE
    LET n     == Len(xs)
        xmean == FMean(xs)
        ymean == FMean(ys)
        ssxm  == FMean([i \in 1..n |-> FMul(FSub(xs[i], xmean), FSub(xs[i], xmean))])
        ssxym == FMean([i \in 1..n |-> FMul(FSub(xs[i], xmean), FSub(ys[i], ymean))])
        ssym  == FMean([i \in 1..n |-> FMul(FSub(ys[i], ymean), FSub(ys[i], ymean))])
        rsq   == IF ssxm = F(0) \/ ssym = F(0) THEN F(0)
                 ELSE FDiv(FMul(ssxym, ssxym), FMul(ssxm, ssym))
        slope == FDiv(ssxym, ssxm)
    IN  [raised |-> FALSE, slope |-> slope,
         intercept |-> Intercept(ymean, slope, xmean), r_squared |-> rsq]

-----------------------------------------------------------------------------
(* Voltammetry_CA._analyze_best_linear_fit(x_data, y_data)                  *)

\* line 113: the initial best_fit (its numbers are the Python int 0)
InitialBestFit(w) ==
    [start |-> 0, end |-> w, r_squared |-> F(0), slope |-> F(0), intercept |-> F(0)]

\* line 114 with the range one too long
RangeStopLate(len, w) == len - w + 2

\* line 114: range(len(x_data) - self.window_size + 1) stops before this value
RangeStop(len, w) == len - w + 1

\* line 118 written with >=: a window that ties replaces the best fit
BetterOrEqual(r_squared, best) == ~FGt(best.r_squared, r_squared)

\* line 118: the comparison that replaces the best fit
Better(r_squared, best) == FGt(r_squared, best.r_squared)

\* line 119 with slope and intercept left out of the update
UpdateStale(best, start, end, lr) ==
    [start |-> start, end |-> end, r_squared |-> lr.r_squared,
     slope |-> best.slope, intercept |-> best.intercept]

\* line 119: best_fit.update(...)
Update(best, start, end, lr) ==
    [start |-> start, end |-> end, r_squared |-> lr.r_squared,
     slope |-> lr.slope, intercept |-> lr.intercept]

\* lines 114-119: the loop from `start` on; raised = linregress raised
RECURSIVE Scan(_, _, _, _, _, _)
Scan(xs, ys, w, raises, start, best) ==
    IF start >= RangeStop(Len(xs), w)
    THEN [raised |-> FALSE, fit |-> best]
    ELSE LET end == start + w
             lr  == Linregress(PySlice(xs, start, end), PySlice(ys, start, end), raises)
         IN  IF lr.raised
             THEN [raised |-> TRUE, fit |-> best]
             ELSE Scan(xs, ys, w, raises, start + 1,
                       IF Better(lr.r_squared, best) THEN Update(best, start, end, lr)
                       ELSE best)

BestLinearFit(xs, ys, w, raises) == Scan(xs, ys, w, raises, 0, InitialBestFit(w))

-----------------------------------------------------------------------------
(* Defaults of Voltammetry_CA.__init__ *)

\* line 21: area_of_active_material when args gives none
DefaultArea == 1

\* line 22: concentration_of_active_material when args gives none
DefaultConcentration == 1

\* line 23: window_size when args gives none
DefaultWindowSize == 10

-----------------------------------------------------------------------------
(* Voltammetry_CA._calculate_charge                                         *)

\* line 42: np.diff(self.np_time)
Diff(s) == [i \in 1..(Len(s) - 1) |-> s[i + 1] - s[i]]

\* line 45: delta_t * self.np_current[1:]
IntervalCharges(t, c) == [i \in 1..(Len(t) - 1) |-> Diff(t)[i] * Tail(c)[i]]

\* line 48: np.cumsum(np.insert(interval_charges, 0, 0))
RECURSIVE CumSum(_)
CumSum(s) ==
    IF s = <<>> THEN <<>>
    ELSE LET front == CumSum(SubSeq(s, 1, Len(s) - 1))
         IN  Append(front, (IF front = <<>> THEN 0 ELSE front[Len(front)]) + s[Len(s)])

\* line 48: the list the method stores in self.cumulative_charge
ChargeStored(t, c) == CumSum(<<0>> \o IntervalCharges(t, c))

\* lines 39-48: the method stores the list in self.cumulative_charge and has
\* no return statement, so the call itself evaluates to None
CalculateCharge(t, c) == [stored |-> Some(ChargeStored(t, c)), returned |-> None]

-----------------------------------------------------------------------------
(* Transforms of the signal.                                                *)

\* Precision of the rational stand-ins of sqrt: results are multiples of
\* 1/Precision.
Precision == 10

\* Largest r with r * r <= v.
ISqrt(v) == CHOOSE r \in 0..v : r * r <= v /\ (r + 1) * (r + 1) > v

\* line 55: np.sqrt(1 / t) for one sample; 1/0 is inf, the root of a negative
\* number is nan
InvSqrt(t) ==
    IF t = 0 THEN Q(1, 0)
    ELSE IF t < 0 THEN NaN
    ELSE Q(ISqrt((Precision * Precision) \div t), Precision)

\* ln(c) rounded to one decimal, for c in 1..8
LnTenths(c) ==
    CASE c = 1 -> 0
      [] c = 2 -> 7
      [] c = 3 -> 11
      [] c = 4 -> 14
      [] c = 5 -> 16
      [] c = 6 -> 18
      [] c = 7 -> 19
      [] OTHER -> 21

\* lines 76: np.log(c) for one sample; log(0) is -inf, the log of a negative
\* number is nan; numpy warns and raises nothing
Log(c) ==
    IF c = 0 THEN Q(-1, 0)
    ELSE IF c < 0 THEN NaN
    ELSE Q(LnTenths(c), 10)

\* line 79: 1 / c for one sample; 1/0 is inf; numpy warns and raises nothing
Reciprocal(c) == Q(1, c)

-----------------------------------------------------------------------------
(* Voltammetry_CA._calculate_diffusion_coefficient                          *)

\* line 63, with the diffusion coefficient expressed in units of pi / F^2
\* (pi and the Faraday constant F are positive constants).  The slope of the
\* initial best_fit is the Python int 0, and Python raises on 0.0 / 0.0; a
\* fitted slope is a numpy float, which divides by zero to inf.
DiffusionCoefficient(fit, n, area, conc) ==
    LET den == n * n * area * area * conc * conc
        num == FMul(fit.slope, fit.slope)
    IN  IF den = 0 /\ fit.r_squared = F(0)
        THEN [raised |-> TRUE, value |-> NaN]
        ELSE [raised |-> FALSE, value |-> Q(num.n, num.d * den)]

-----------------------------------------------------------------------------
(* Voltammetry_CA._analyze_reaction_kinetics                                *)

\* line 82 written with >=: first order is selected on a tie too
FirstOrderWinsOrTies(first, second) == ~FGt(second.r_squared, first.r_squared)

\* line 82: the test that selects first order
FirstOrderWins(first, second) == FGt(first.r_squared, second.r_squared)

\* lines 82-91: the order and the rate constant set from the two fits
Kinetics(first, second) ==
    IF FirstOrderWins(first, second)
    THEN [order |-> 1, rate |-> FNeg(first.slope)]
    ELSE [order |-> 2, rate |-> second.slope]

-----------------------------------------------------------------------------
(* The inputs. *)

\* Number of samples of a measurement (times range over 0..MaxSamples).
MaxSamples == 4

\* Currents range over -1..MaxCurrent.
MaxCurrent == 3

NonDecreasing(s) == \A i \in 1..(Len(s) - 1) : s[i] <= s[i + 1]

StrictlyIncreasing(s) == \A i \in 1..(Len(s) - 1) : s[i] < s[i + 1]

\* Times of a measurement: strictly increasing from 0 (spec.md, TimeSeries).
Times == {t \in [1..MaxSamples -> 0..MaxSamples] : t[1] = 0 /\ StrictlyIncreasing(t)}

\* Currents of a measurement.  The sample taken at the first instant is 0: no
\* method reads it (lines 45, 56, 76 and 79 all take np_current[1:]).
Currents == {c \in [1..MaxSamples -> -1..MaxCurrent] : c[1] = 0}

WindowArgs == {None} \cup {Some(w) : w \in 1..(MaxSamples - 1)}

ParamArgs == {None, Some(-1), Some(0), Some(2)}

DefaultArgs ==
    [number_of_electrons |-> 1, area_of_active_material |-> None,
     concentration_of_active_material |-> None, window_size |-> None]

\* The fields before __init__ has run.
Unconstructed ==
    /\ pc = "new"
    /\ error = ""
    /\ linregress_raises = TRUE
    /\ cumulative_charge = None
    /\ window_size = 0
    /\ area_of_active_material = 0
    /\ concentration_of_active_material = 0
    /\ diffusion_coefficient = None
    /\ reaction_order = None
    /\ reaction_rate_constant = None
    /\ first_order_fit = None
    /\ second_order_fit = None
    /\ x_data = <<>>
    /\ y_data = <<>>
    /\ best_fit = None

\* Measurements with and without a supplied charge.
InitCharge ==
    /\ time \in Times
    /\ current \in Currents
    /\ charge \in {None, Some([i \in 1..MaxSamples |-> i])}
    /\ args = DefaultArgs

\* Measurements analysed with every window size.
InitKinetics ==
    /\ time \in Times
    /\ current \in Currents
    /\ charge = None
    /\ args \in {[DefaultArgs EXCEPT !.window_size = w] : w \in WindowArgs}

\* Decaying measurements analysed with every choice of physical parameters.
InitParameters ==
    /\ time = [i \in 1..MaxSamples |-> i - 1]
    /\ current \in {[i \in 1..MaxSamples |-> IF i = 1 THEN 0 ELSE MaxSamples + 1 - i],
                    [i \in 1..MaxSamples |-> IF i = 1 THEN 0 ELSE 1]}
    /\ charge = None
    /\ args \in {[number_of_electrons |-> n, area_of_active_material |-> a,
                  concentration_of_active_material |-> c, window_size |-> Some(2)] :
                 n \in {-1, 0, 1, 2}, a \in ParamArgs, c \in ParamArgs}

Init == Unconstructed /\ (InitCharge \/ InitKinetics \/ InitParameters)

-----------------------------------------------------------------------------
(* The operations of a Voltammetry_CA object. *)

\* lines 14-26: __init__.  The base class (not in this file) stores time,
\* current and number_of_electrons.
Construct ==
    /\ pc = "new"
    /\ pc' = "constructed"
    \* line 19 assigns the value of the call, over what the call stored
    /\ cumulative_charge' =
          IF IsNone(charge) THEN CalculateCharge(time, current).returned ELSE charge
    /\ area_of_active_material' =
          IF IsNone(args.area_of_active_material) THEN DefaultArea
          ELSE Get(args.area_of_active_material)
    /\ concentration_of_active_material' =
          IF IsNone(args.concentration_of_active_material) THEN DefaultConcentration
          ELSE Get(args.concentration_of_active_material)
    /\ window_size' =
          IF IsNone(args.window_size) THEN DefaultWindowSize ELSE Get(args.window_size)
    /\ diffusion_coefficient' = None
    /\ reaction_order' = None
    /\ reaction_rate_constant' = None
    /\ UNCHANGED <<time, current, charge, args, linregress_raises, error,
                   first_order_fit, second_order_fit, x_data, y_data, best_fit>>

\* lines 51-64: _calculate_diffusion_coefficient, the first call of analyze
CalculateDiffusionCoefficient ==
    /\ pc = "constructed"
    /\ LET t_inv_sqrt == [i \in 1..(Len(time) - 1) |-> InvSqrt(Tail(time)[i])]
           search == BestLinearFit(t_inv_sqrt, FArray(Tail(current)), window_size,
                                   linregress_raises)
           d == DiffusionCoefficient(search.fit, args.number_of_electrons,
                                     area_of_active_material,
                                     concentration_of_active_material)
       IN  IF search.raised
           THEN /\ pc' = "raised"
                /\ error' = "ValueError"
                /\ UNCHANGED diffusion_coefficient
           ELSE IF d.raised
           THEN /\ pc' = "raised"
                /\ error' = "ZeroDivisionError"
                /\ UNCHANGED diffusion_coefficient
           ELSE /\ pc' = "diffusion_done"
                /\ diffusion_coefficient' = Some(d.value)
                /\ UNCHANGED error
    /\ UNCHANGED <<time, current, charge, args, linregress_raises,
                   cumulative_charge, window_size, area_of_active_material,
                   concentration_of_active_material, reaction_order,
                   reaction_rate_constant, first_order_fit, second_order_fit,
                   x_data, y_data, best_fit>>

\* lines 67-93: _analyze_reaction_kinetics, the second call of analyze
AnalyzeReactionKinetics ==
    /\ pc = "diffusion_done"
    /\ LET x == FArray(Tail(time))
           first == BestLinearFit(x, [i \in 1..(Len(current) - 1) |-> Log(Tail(current)[i])],
                                  window_size, linregress_raises)
           second == BestLinearFit(x, [i \in 1..(Len(current) - 1) |-> Reciprocal(Tail(current)[i])],
                                   window_size, linregress_raises)
           k == Kinetics(first.fit, second.fit)
       IN  IF first.raised
           THEN /\ pc' = "raised"
                /\ error' = "ValueError"
                /\ UNCHANGED <<reaction_order, reaction_rate_constant,
                               first_order_fit, second_order_fit>>
           ELSE IF second.raised
           THEN /\ pc' = "raised"
                /\ error' = "ValueError"
                /\ first_order_fit' = Some(first.fit)
                /\ UNCHANGED <<reaction_order, reaction_rate_constant, second_order_fit>>
           ELSE /\ pc' = "analyzed"
                /\ first_order_fit' = Some(first.fit)
                /\ second_order_fit' = Some(second.fit)
                /\ reaction_order' = Some(k.order)
                /\ reaction_rate_constant' = Some(k.rate)
                /\ UNCHANGED error
    /\ UNCHANGED <<time, current, charge, args, linregress_raises,
                   cumulative_charge, window_size, area_of_active_material,
                   concentration_of_active_material, diffusion_coefficient,
                   x_data, y_data, best_fit>>

Next == Construct \/ CalculateDiffusionCoefficient \/ AnalyzeReactionKinetics

Spec == Init /\ [][Next]_vars

-----------------------------------------------------------------------------
(* _analyze_best_linear_fit called on its own, with any two sequences.      *)

\* The sequences of length 1..MaxLen over 0..MaxVal; x is in acquisition
\* order (it is a monotone function of the time axis).
SearchInit ==
    /\ \E L \in 1..MaxLen :
          /\ \E xs \in [1..L -> 0..MaxVal] : NonDecreasing(xs) /\ x_data = FArray(xs)
          /\ \E ys \in [1..L -> 0..MaxVal] : y_data = FArray(ys)
    /\ window_size \in -1..(MaxLen + 1)
    /\ linregress_raises \in BOOLEAN
    /\ pc = "call"
    /\ error = ""
    /\ best_fit = None
    /\ time = <<>>
    /\ current = <<>>
    /\ charge = None
    /\ args = DefaultArgs
    /\ cumulative_charge = None
    /\ area_of_active_material = DefaultArea
    /\ concentration_of_active_material = DefaultConcentration
    /\ diffusion_coefficient = None
    /\ reaction_order = None
    /\ reaction_rate_constant = None
    /\ first_order_fit = None
    /\ second_order_fit = None

\* lines 96-121: the call returns best_fit, or ends with linregress's error
AnalyzeBestLinearFit ==
    /\ pc = "call"
    /\ LET search == BestLinearFit(x_data, y_data, window_size, linregress_raises)
       IN  IF search.raised
           THEN /\ pc' = "raised"
                /\ error' = "ValueError"
                /\ UNCHANGED best_fit
           ELSE /\ pc' = "returned"
                /\ best_fit' = Some(search.fit)
                /\ UNCHANGED error
    /\ UNCHANGED <<time, current, charge, args, linregress_raises,
                   cumulative_charge, window_size, area_of_active_material,
                   concentration_of_active_material, diffusion_coefficient,
                   reaction_order, reaction_rate_constant, first_order_fit,
                   second_order_fit, x_data, y_data>>

SearchNext == AnalyzeBestLinearFit

SpecSearch == SearchInit /\ [][SearchNext]_vars

-----------------------------------------------------------------------------
(* Vocabulary of the properties of the search. *)

SearchLen == Len(x_data)

\* The call was made with 2 <= window_size <= len(x).
ValidWindow == 2 <= window_size /\ window_size <= SearchLen

\* Start indices of the contiguous windows of width window_size.
WindowStarts == 0..(SearchLen - window_size)

WindowX(s) == PySlice(x_data, s, s + window_size)

WindowY(s) == PySlice(y_data, s, s + window_size)

\* The least-squares fit of window s (where linregress gives one).
WindowFit(s) == Linregress(WindowX(s), WindowY(s), FALSE)

ConstantX(s) == AllSame(WindowX(s))

\* Slopes a for which y = a * x + b can hold on the sequences of the model.
Slopes == {Q(p, q) : p \in (-MaxVal)..MaxVal, q \in 1..MaxVal}

\* y[i] = a * x[i] + b for every i, b being fixed by the first sample.
OffsetOf(a) == FSub(y_data[1], FMul(a, x_data[1]))

ExactlyLinear(a) ==
    \A i \in 1..SearchLen : y_data[i] = FAdd(FMul(a, x_data[i]), OffsetOf(a))

-----------------------------------------------------------------------------
(* Properties. *)

\* C1: for 2 <= window_size <= len(x), no window has a greater r_squared than
\* the returned one, and every window that starts earlier has a strictly
\* smaller r_squared.
C1_GreatestEarliest ==
    (pc = "returned" /\ ValidWindow) =>
        LET b == Get(best_fit)
        IN  /\ b.start \in WindowStarts
            /\ b.r_squared = WindowFit(b.start).r_squared
            /\ \A s \in WindowStarts :
                  /\ ~FGt(WindowFit(s).r_squared, b.r_squared)
                  /\ (s < b.start => FGt(b.r_squared, WindowFit(s).r_squared))

\* C1 witness: a later window ties with the returned one at a positive
\* r_squared.
C1_Witness ==
    /\ pc = "returned"
    /\ ValidWindow
    /\ FGt(Get(best_fit).r_squared, F(0))
    /\ \E s \in WindowStarts :
          s > Get(best_fit).start /\ WindowFit(s).r_squared = Get(best_fit).r_squared

\* C2: for window_size <= len(x), a returned window has width window_size and
\* starts in 0..len(x) - window_size.
C2_WindowInside ==
    (pc = "returned" /\ window_size <= SearchLen) =>
        LET b == Get(best_fit)
        IN  /\ b.end - b.start = window_size
            /\ 0 <= b.start
            /\ b.start <= SearchLen - window_size

\* C2 witness: the last of several windows is returned.
C2_Witness ==
    /\ pc = "returned"
    /\ window_size <= SearchLen
    /\ Get(best_fit).start > 0
    /\ Get(best_fit).start = SearchLen - window_size

\* C5 as claimed: the search fails (returns no fit) whenever window_size is
\* greater than the length of the sequences or smaller than 2.
C5_InvalidWindowFails ==
    (pc # "call" /\ (window_size > SearchLen \/ window_size < 2)) =>
        (pc = "raised" /\ IsNone(best_fit))

C9_ConstantWindowSkipped ==
    (/\ pc # "call"
     /\ ValidWindow
     /\ Cardinality(WindowStarts) > 1
     /\ \E s \in WindowStarts : ConstantX(s)) =>
        /\ pc = "returned"
        /\ ~ConstantX(Get(best_fit).start)

\* C10 as claimed: the returned slope, intercept and r_squared are those of
\* the least-squares line of the returned window (stated for returned windows
\* on which x is not constant, where that line exists).
C10_FitOfReturnedWindow ==
    (pc = "returned" /\ ValidWindow /\ ~ConstantX(Get(best_fit).start)) =>
        LET b == Get(best_fit)
            lr == WindowFit(b.start)
        IN  /\ b.end = b.start + window_size
            /\ b.slope = lr.slope
            /\ b.intercept = lr.intercept
            /\ b.r_squared = lr.r_squared

\* C10 amended: when some window has r_squared > 0 the returned slope,
\* intercept and r_squared are those of the least-squares line of the returned
\* window; when none has, the result is the initial best_fit: window [0, w)
\* with slope 0, intercept 0 and r_squared 0.
C10_FitOfReturnedWindowOrInitial ==
    (pc = "returned" /\ ValidWindow) =>
        LET b == Get(best_fit)
            lr == WindowFit(b.start)
        IN  IF \E s \in WindowStarts : FGt(WindowFit(s).r_squared, F(0))
            THEN /\ b.end = b.start + window_size
                 /\ b.slope = lr.slope
                 /\ b.intercept = lr.intercept
                 /\ b.r_squared = lr.r_squared
            ELSE b = InitialBestFit(window_size)

\* C10 witness: a window after the first is returned with a fit that is not a
\* perfect one.
C10_Witness ==
    /\ pc = "returned"
    /\ ValidWindow
    /\ Get(best_fit).start > 0
    /\ FGt(Get(best_fit).r_squared, F(0))
    /\ FGt(F(1), Get(best_fit).r_squared)

-----------------------------------------------------------------------------
(* Properties of the object's operations. *)

\* The two transformed signals of _analyze_reaction_kinetics.
LogCurrent == [i \in 1..(Len(current) - 1) |-> Log(Tail(current)[i])]

ReciprocalCurrent == [i \in 1..(Len(current) - 1) |-> Reciprocal(Tail(current)[i])]

\* C3: after the classification, both fits are the searches over x = time[1:]
\* with the object's window_size; the order is 1 and the rate constant the
\* negated slope of the first-order fit exactly when that fit's r_squared is
\* strictly the greater; otherwise (ties included) the order is 2 and the rate
\* constant the slope of the second-order fit.
C3_OrderAndRate ==
    pc = "analyzed" =>
        LET first == Get(first_order_fit)
            second == Get(second_order_fit)
            x == FArray(Tail(time))
        IN  /\ first = BestLinearFit(x, LogCurrent, window_size, linregress_raises).fit
            /\ second = BestLinearFit(x, ReciprocalCurrent, window_size, linregress_raises).fit
            /\ IF FGt(first.r_squared, second.r_squared)
               THEN /\ reaction_order = Some(1)
                    /\ reaction_rate_constant = Some(FNeg(first.slope))
               ELSE /\ reaction_order = Some(2)
                    /\ reaction_rate_constant = Some(second.slope)

\* C3 witness: the two fits tie at a positive r_squared, with different
\* nonzero slopes.
C3_Witness ==
    /\ pc = "analyzed"
    /\ Get(first_order_fit).r_squared = Get(second_order_fit).r_squared
    /\ FGt(Get(first_order_fit).r_squared, F(0))
    /\ Get(second_order_fit).slope # FNeg(Get(first_order_fit).slope)
    /\ reaction_order = Some(2)

\* C4 as claimed: once the object is constructed, a measurement given without
\* charge has the cumulative charge q with q[0] = 0 and
\* q[i] = q[i-1] + (time[i] - time[i-1]) * current[i]; a supplied charge is
\* kept as it is.
C4_CumulativeCharge ==
    pc # "new" =>
        IF IsNone(charge)
        THEN /\ ~IsNone(cumulative_charge)
             /\ LET q == Get(cumulative_charge)
                IN  /\ Len(q) = Len(time)
                    /\ q[1] = 0
                    /\ \A i \in 2..Len(time) :
                          q[i] = q[i - 1] + (time[i] - time[i - 1]) * current[i]
        ELSE cumulative_charge = charge

\* C6 as claimed: with a zero or negative current after the first sample, the
\* classification does not complete and sets neither the order nor the rate
\* constant (stated for the calls whose window fits the signal).
C6_NonPositiveCurrentFails ==
    (/\ pc # "new"
     /\ 2 <= window_size
     /\ window_size <= Len(current) - 1
     /\ \E i \in 2..Len(current) : current[i] <= 0) =>
        /\ pc # "analyzed"
        /\ IsNone(reaction_order)
        /\ IsNone(reaction_rate_constant)

\* C7 as claimed: with an area, a concentration or a number of electrons <= 0
\* the computation fails and leaves no diffusion coefficient; with positive
\* parameters the diffusion coefficient is not negative.
C7_NonPositiveParameterFails ==
    (pc # "new" /\ pc # "constructed") =>
        IF \/ area_of_active_material <= 0
           \/ concentration_of_active_material <= 0
           \/ args.number_of_electrons <= 0
        THEN IsNone(diffusion_coefficient)
        ELSE IsNone(diffusion_coefficient) \/ ~FGt(F(0), Get(diffusion_coefficient))

=============================================================================
